---- MODULE Spec2Model ----
(***************************************************************************)
(* Model of routes/role_router.py: the four endpoints of the /roles        *)
(* resource group and the DatabaseManager instance `crud` they delegate to.*)
(*                                                                         *)
(* An optional value (Python None or a value) is a set with at most one    *)
(* element: {} is None/falsy, {v} is the value v.                          *)
(***************************************************************************)
EXTENDS Integers, Sequences, FiniteSets, TLC

VARIABLES
    store,      \* the DatabaseManager's table of roles
    nextId,     \* the DatabaseManager's next id to assign
    request,    \* the request being served by the last operation
    crud_ret,   \* what the delegated DatabaseManager call did (return / raise)
    result,     \* how the handler terminated (return / HTTPException / propagated)
    calls,      \* the DatabaseManager methods called while serving the request
    created     \* history: per successful create_role, the id returned and
                \* the role_name and level supplied, in order

vars == <<store, nextId, request, crud_ret, result, calls, created>>

-----------------------------------------------------------------------------
(* Bounds *)

MaxRoles == 3
MaxLevel == 2

RoleNames == {"", "admin", "user"}
Levels    == 1..MaxLevel
RoleIds   == 1..(MaxRoles + 1)
LookupNames == RoleNames \cup {"ghost"}

-----------------------------------------------------------------------------
(* Values *)

RoleHierarchy(id, role_name, level) ==
    [id |-> id, role_name |-> role_name, level |-> level]

\* exceptions the DatabaseManager can raise; args are the exception's arguments
IntegrityError   == [type |-> "IntegrityError",
                     args |-> <<"UNIQUE constraint failed: role_name">>]
OperationalError == [type |-> "OperationalError", args |-> <<"connection lost">>]
RuntimeError     == [type |-> "RuntimeError", args |-> <<>>]

\* a fault injected into one DatabaseManager call: none, or one exception
Faults == {{}, {OperationalError}, {RuntimeError}}

\* str(e) of an exception: "" without arguments, the argument when there is one
str(e) == IF Len(e.args) = 0 THEN "" ELSE e.args[1]

\* the bodies a client can POST: each field present or missing
Bodies == [role_name : {{}} \cup {{n} : n \in RoleNames},
           level     : {{}} \cup {{l} : l \in Levels}]

\* RoleCreate with role_name declared as a string of at least one character
RoleCreate_min_length(body) ==
    body.role_name # {} /\ body.role_name # {""} /\ body.level # {}

\* RoleCreate: both fields are required; a str and an int, nothing more
RoleCreate(body) == body.role_name # {} /\ body.level # {}

Perms(S) == {s \in [1..Cardinality(S) -> S] :
                \A i, j \in 1..Cardinality(S) : s[i] = s[j] => i = j}

-----------------------------------------------------------------------------
(* The DatabaseManager collaborator (db/db_manager.py) *)

Raise(e) == [raised |-> TRUE,  exc |-> {e}, value |-> {}, list |-> <<>>]
Value(v) == [raised |-> FALSE, exc |-> {},  value |-> v,  list |-> <<>>]
List(s)  == [raised |-> FALSE, exc |-> {},  value |-> {}, list |-> s]

crud_create_role(role_name, level, fault) ==
    IF fault # {} THEN Raise(CHOOSE e \in fault : TRUE)
    ELSE IF \E r \in store : r.role_name = role_name THEN Raise(IntegrityError)
    ELSE Value({RoleHierarchy(nextId, role_name, level)})

crud_get_role(role_id, fault) ==
    IF fault # {} THEN Raise(CHOOSE e \in fault : TRUE)
    ELSE Value({r \in store : r.id = role_id})

crud_get_role_by_name(role_name, fault) ==
    IF fault # {} THEN Raise(CHOOSE e \in fault : TRUE)
    ELSE Value({r \in store : r.role_name = role_name})

crud_get_all_roles(order, fault) ==
    IF fault # {} THEN Raise(CHOOSE e \in fault : TRUE)
    ELSE List(order)

-----------------------------------------------------------------------------
(* How a handler terminates *)

Return(v) ==
    [kind |-> "return", status |-> 200, detail |-> "", exc |-> {},
     value |-> v, list |-> <<>>]
ReturnList(s) ==
    [kind |-> "return_list", status |-> 200, detail |-> "", exc |-> {},
     value |-> {}, list |-> s]
HTTPException(status_code, detail) ==
    [kind |-> "HTTPException", status |-> status_code, detail |-> detail,
     exc |-> {}, value |-> {}, list |-> <<>>]
Propagate(e) ==
    [kind |-> "propagated", status |-> 500, detail |-> "", exc |-> {e},
     value |-> {}, list |-> <<>>]
ValidationError ==
    [kind |-> "validation_error", status |-> 422, detail |-> "", exc |-> {},
     value |-> {}, list |-> <<>>]

Exc(ret) == CHOOSE e \in ret.exc : TRUE

Req(op, body, role_id, role_name) ==
    [op |-> op, body |-> body, role_id |-> role_id, role_name |-> role_name]
NoBody == [role_name |-> {}, level |-> {}]
NoCall == Value({})

-----------------------------------------------------------------------------
(* The handlers *)

\* create_role_try catching only the constraint violation
create_role_try_narrow(ret) ==
    IF ret.raised /\ Exc(ret).type = "IntegrityError"
    THEN HTTPException(400, str(Exc(ret)))
    ELSE IF ret.raised THEN Propagate(Exc(ret))
    ELSE Return(ret.value)

\* create_role_try raising the 400 without the error's text
create_role_try_no_detail(ret) ==
    IF ret.raised THEN HTTPException(400, "")
    ELSE Return(ret.value)

\* try: return crud.create_role(...)  except Exception as e: raise 400 str(e)
create_role_try(ret) ==
    IF ret.raised THEN HTTPException(400, str(Exc(ret)))
    ELSE Return(ret.value)

\* get_role_body with the test inverted: `if role:` raises the 404
get_role_body_inverted(ret) ==
    IF ret.raised THEN Propagate(Exc(ret))
    ELSE IF ret.value # {} THEN HTTPException(404, "Role not found")
    ELSE Return(ret.value)

\* role = crud.get_role(role_id); if not role: raise 404; return role
get_role_body(ret) ==
    IF ret.raised THEN Propagate(Exc(ret))
    ELSE IF ret.value = {} THEN HTTPException(404, "Role not found")
    ELSE Return(ret.value)

\* get_role_by_name_body with another detail text on the 404
get_role_by_name_body_detail(ret) ==
    IF ret.raised THEN Propagate(Exc(ret))
    ELSE IF ret.value = {} THEN HTTPException(404, "Not found")
    ELSE Return(ret.value)

\* get_role_by_name_body that never finds: the 404 is raised unconditionally
get_role_by_name_body_never(ret) ==
    IF ret.raised THEN Propagate(Exc(ret))
    ELSE HTTPException(404, "Role not found")

\* role = crud.get_role_by_name(role_name); if not role: raise 404; return role
get_role_by_name_body(ret) ==
    IF ret.raised THEN Propagate(Exc(ret))
    ELSE IF ret.value = {} THEN HTTPException(404, "Role not found")
    ELSE Return(ret.value)

\* get_all_roles_body returning the list without its first element
get_all_roles_body_skip(ret) ==
    IF ret.raised THEN Propagate(Exc(ret))
    ELSE ReturnList(IF ret.list = <<>> THEN <<>> ELSE Tail(ret.list))

\* get_all_roles_body with create_role's catch-all around the call
get_all_roles_body_catch(ret) ==
    IF ret.raised THEN HTTPException(400, str(Exc(ret)))
    ELSE ReturnList(ret.list)

\* get_all_roles_body raising the lookups' 404 on an empty list
get_all_roles_body_404(ret) ==
    IF ret.raised THEN Propagate(Exc(ret))
    ELSE IF ret.list = <<>> THEN HTTPException(404, "Role not found")
    ELSE ReturnList(ret.list)

\* return crud.get_all_roles()
get_all_roles_body(ret) ==
    IF ret.raised THEN Propagate(Exc(ret))
    ELSE ReturnList(ret.list)

\* POST /roles/
create_role(body, fault) ==
    /\ request' = Req("create_role", body, 0, "")
    /\ IF ~RoleCreate(body)
       THEN /\ result' = ValidationError
            /\ crud_ret' = NoCall
            /\ calls' = <<>>
            /\ UNCHANGED <<store, nextId, created>>
       ELSE LET role_name == CHOOSE n \in body.role_name : TRUE
                level     == CHOOSE l \in body.level : TRUE
                ret       == crud_create_role(role_name, level, fault)
                res       == create_role_try(ret)
            IN /\ ret.raised \/ nextId <= MaxRoles
               /\ crud_ret' = ret
               /\ calls' = <<"create_role">>
               /\ store' = store \cup ret.value
               /\ nextId' = IF ret.raised THEN nextId ELSE nextId + 1
               /\ result' = res
               /\ created' =
                     IF res.kind = "return" /\ res.value # {}
                     THEN Append(created,
                                 RoleHierarchy((CHOOSE v \in res.value : TRUE).id,
                                               role_name, level))
                     ELSE created

\* get_role that takes the role out of the table while reading it
get_role_pop(role_id, fault) ==
    LET ret == crud_get_role(role_id, fault)
    IN /\ request' = Req("get_role", NoBody, role_id, "")
       /\ crud_ret' = ret
       /\ calls' = <<"get_role">>
       /\ result' = get_role_body(ret)
       /\ store' = store \ ret.value
       /\ UNCHANGED <<nextId, created>>

\* GET /roles/{role_id}
get_role(role_id, fault) ==
    LET ret == crud_get_role(role_id, fault)
    IN /\ request' = Req("get_role", NoBody, role_id, "")
       /\ crud_ret' = ret
       /\ calls' = <<"get_role">>
       /\ result' = get_role_body(ret)
       /\ UNCHANGED <<store, nextId, created>>

\* GET /roles/name/{role_name}
get_role_by_name(role_name, fault) ==
    LET ret == crud_get_role_by_name(role_name, fault)
    IN /\ request' = Req("get_role_by_name", NoBody, 0, role_name)
       /\ crud_ret' = ret
       /\ calls' = <<"get_role_by_name">>
       /\ result' = get_role_by_name_body(ret)
       /\ UNCHANGED <<store, nextId, created>>

\* GET /roles/
get_all_roles(order, fault) ==
    LET ret == crud_get_all_roles(order, fault)
    IN /\ request' = Req("get_all_roles", NoBody, 0, "")
       /\ crud_ret' = ret
       /\ calls' = <<"get_all_roles">>
       /\ result' = get_all_roles_body(ret)
       /\ UNCHANGED <<store, nextId, created>>

-----------------------------------------------------------------------------

Init ==
    /\ store = {}
    /\ nextId = 1
    /\ request = Req("none", NoBody, 0, "")
    /\ crud_ret = NoCall
    /\ result = Return({})
    /\ calls = <<>>
    /\ created = <<>>

Next ==
    \/ \E body \in Bodies, fault \in Faults : create_role(body, fault)
    \/ \E role_id \in RoleIds, fault \in Faults : get_role(role_id, fault)
    \/ \E role_name \in LookupNames, fault \in Faults :
          get_role_by_name(role_name, fault)
    \/ \E order \in Perms(store), fault \in Faults : get_all_roles(order, fault)

Spec == Init /\ [][Next]_vars

-----------------------------------------------------------------------------
(* Properties *)

Lookups == {"get_role", "get_role_by_name"}
Reads   == Lookups \cup {"get_all_roles"}
Created == {created[i] : i \in 1..Len(created)}

\* C1: a successful create_role followed (after any operations) by get_role
\* on the returned id yields, when the lookup itself does not fail, a Role
\* with the role_name and level that were supplied to create_role.
C1_CreateThenGetById ==
    (request.op = "get_role" /\ ~crud_ret.raised) =>
        \A i \in 1..Len(created) :
            created[i].id = request.role_id =>
                /\ result.kind = "return"
                /\ result.status = 200
                /\ result.value # {}
                /\ \A v \in result.value :
                      /\ v.id = created[i].id
                      /\ v.role_name = created[i].role_name
                      /\ v.level = created[i].level

C1_Witness ==
    /\ request.op = "get_role"
    /\ result.kind = "return"
    /\ Len(created) >= 2
    /\ \E i \in 1..Len(created) : created[i].id = request.role_id

\* C2: whatever error the delegated create call raises, create_role ends in
\* an HTTPException with status 400 whose detail is the error's text.
C2_CreateErrorIs400 ==
    (request.op = "create_role" /\ crud_ret.raised) =>
        /\ result.kind = "HTTPException"
        /\ result.status = 400
        /\ \A e \in crud_ret.exc : result.detail = str(e)
        /\ result.exc = {}

C2_Witness ==
    /\ request.op = "create_role"
    /\ crud_ret.exc = {OperationalError}
    /\ result.status = 400
    /\ result.detail = "connection lost"

\* C3: get_role and get_role_by_name end in the 404 "Role not found" exactly
\* when the lookup returned an empty result; a found role is returned as is.
C3_NotFoundIffEmpty ==
    request.op \in Lookups =>
        /\ (result = HTTPException(404, "Role not found"))
              <=> (~crud_ret.raised /\ crud_ret.value = {})
        /\ (~crud_ret.raised /\ crud_ret.value # {}) =>
              (result.kind = "return" /\ result.value = crud_ret.value)
        /\ result.kind = "HTTPException" =>
              (result.status = 404 /\ result.detail = "Role not found")

C3_Witness ==
    /\ request.op = "get_role_by_name"
    /\ store # {}
    /\ crud_ret = Value({})
    /\ result.status = 404

C5_ListHoldsCreated ==
    (request.op = "get_all_roles" /\ ~crud_ret.raised) =>
        /\ result.kind = "return_list"
        /\ Len(result.list) >= Len(created)
        /\ \A i \in 1..Len(created) :
              \E j \in 1..Len(result.list) : result.list[j] = created[i]

C5_Witness ==
    /\ request.op = "get_all_roles"
    /\ result.kind = "return_list"
    /\ Len(created) >= 2
    /\ result.list[1] # created[1]

\* C6: a create_role that hits the uniqueness constraint ends in a 400 whose
\* detail is not empty.
C6_ConstraintViolationDetail ==
    (request.op = "create_role" /\ crud_ret.exc = {IntegrityError}) =>
        /\ result.kind = "HTTPException"
        /\ result.status = 400
        /\ result.detail # ""

C6_Witness ==
    /\ request.op = "create_role"
    /\ crud_ret.exc = {IntegrityError}
    /\ \E r \in store : {r.role_name} = request.body.role_name
    /\ result.detail # ""

\* C7: an error raised by the collaborator in one of the three reads leaves
\* the handler as that same error, never as a 400 or a 404.
C7_ReadErrorsPropagate ==
    (request.op \in Reads /\ crud_ret.raised) =>
        /\ result.kind = "propagated"
        /\ result.exc = crud_ret.exc
        /\ result.status \notin {400, 404}

C7_Witness ==
    /\ request.op = "get_all_roles"
    /\ crud_ret.raised
    /\ result.kind = "propagated"

\* C8: a created role is never changed or removed, ids of created roles are
\* pairwise distinct, and the three reads leave the stored roles unchanged.
C8_RolesImmutable ==
    [][ /\ \A i \in 1..Len(created) :
              /\ Len(created') >= i
              /\ created'[i] = created[i]
              /\ created[i] \in store'
        /\ store \subseteq store'
        /\ \A i, j \in 1..Len(created') :
              created'[i].id = created'[j].id => i = j
        /\ \A r1, r2 \in store' : r1.id = r2.id => r1 = r2
        /\ request'.op \in Reads => store' = store
      ]_vars

C8_Witness ==
    /\ Len(created) >= 2
    /\ request.op = "get_role"
    /\ result.kind = "return"

\* C9 (as claimed): a create request whose role_name is the empty string is
\* rejected by validation and never reaches the collaborator.
C9_EmptyNameRejected ==
    (request.op = "create_role" /\ request.body.role_name = {""}) =>
        (result.kind = "validation_error" /\ calls = <<>>)

\* C9 (amended): a create request without role_name is rejected by validation
\* and never reaches the collaborator; one whose role_name is the empty string
\* (and whose level is present) passes validation and is delegated.
C9_OnlyPresenceRequired ==
    request.op = "create_role" =>
        /\ request.body.role_name = {} =>
              (result.kind = "validation_error" /\ calls = <<>>)
        /\ (request.body.role_name = {""} /\ request.body.level # {}) =>
              (result.kind # "validation_error" /\ calls = <<"create_role">>)

C9_Witness ==
    /\ request.op = "create_role"
    /\ request.body.role_name = {""}
    /\ result.kind = "return"
    /\ \E r \in store : r.role_name = ""

Outcome(res) ==
    CASE res.kind = "return"      -> "success-with-entity"
      [] res.kind = "return_list" -> "success-with-list"
      [] res.kind = "HTTPException" /\ res.status = 404 -> "not-found-signal"
      [] res.kind = "HTTPException" /\ res.status = 400 -> "bad-request-signal"
      [] res.kind = "propagated"  -> "unmapped-internal-error"
      [] OTHER -> "other"

\* C10: every handler run makes exactly one collaborator call and ends in one
\* of the five outcomes; 400 only from create_role, 404 only from the two
\* lookups, a list only from get_all_roles, and create_role never ends in an
\* unmapped error.
C10_OneCallOneOutcome ==
    (request.op # "none" /\ result.kind # "validation_error") =>
        /\ calls = <<request.op>>
        /\ Outcome(result) \in {"success-with-entity", "success-with-list",
                                "not-found-signal", "bad-request-signal",
                                "unmapped-internal-error"}
        /\ Outcome(result) = "bad-request-signal" => request.op = "create_role"
        /\ Outcome(result) = "not-found-signal" => request.op \in Lookups
        /\ Outcome(result) = "success-with-list" <=>
              (request.op = "get_all_roles" /\ ~crud_ret.raised)
        /\ Outcome(result) = "success-with-entity" =>
              request.op \in Lookups \cup {"create_role"}
        /\ request.op = "create_role" =>
              Outcome(result) # "unmapped-internal-error"

C10_Witness ==
    /\ request.op = "get_all_roles"
    /\ store = {}
    /\ calls = <<"get_all_roles">>
    /\ Outcome(result) = "success-with-list"

====
